---- MODULE Spec2Model ----
(***************************************************************************)
(* Animals API (src/app.js, src/animalsData.js): an Express application    *)
(* whose five route handlers each forward the request to one Mongoose      *)
(* model call (create, find, findById, findByIdAndUpdate,                  *)
(* findByIdAndDelete) on the "Animal" collection and map the outcome to a  *)
(* status code and a JSON body.                                            *)
(*                                                                         *)
(* Strings are sequences of one-character strings, so that the casts the   *)
(* handlers rely on (ObjectId syntax, Number(...), the required check on   *)
(* empty strings) are computed, not assumed.  A JSON object is a record    *)
(* whose fields are sets of at most one value: {} is an absent key.        *)
(***************************************************************************)
EXTENDS Integers, Sequences, FiniteSets, TLC

VARIABLES
    uri,          \* process.env.MONGO_URI: "present" or "absent"
    conn,         \* mongoose connection: "disconnected", "connecting", "connected"
    listening,    \* the HTTP port is open (app.listen has run, process alive)
    everListened, \* the port has been open at some time in this run
    exitCode,     \* 0 while the process runs, 1 after process.exit(1)
    store,        \* the Animal collection: a set of documents, _id unique
    used,         \* every _id that was ever inserted (ObjectIds are not regenerated)
    pend,         \* per client: the request whose handler awaits its store call
    sent,         \* per client: the response on its way to the client, with its request
    fresh,        \* history: documents as returned by Create, not updated or deleted since
    lastApplied   \* history: the model call applied last: its client (0: none), the
                  \* clients whose requests were waiting then, and the client of the
                  \* call before it if this call's request was waiting during that one

vars == <<uri, conn, listening, everListened, exitCode, store, used, pend, sent,
          fresh, lastApplied>>

----------------------------------------------------------------------------
(* Bounds of the model *)

\* how many ObjectIds the store's generator can hand out in one run
MaxIds == 2

\* how many requests may be in flight at once in SpecConc
MaxClients == 2

----------------------------------------------------------------------------
(* Identifiers *)

\* an ObjectId in hexadecimal has 24 characters (12 bytes)
IdLen == 24

HexLower == {"0","1","2","3","4","5","6","7","8","9","a","b","c","d","e","f"}
HexUpper == {"A","B","C","D","E","F"}

toLowerChar(ch) ==
    CASE ch = "A" -> "a" [] ch = "B" -> "b" [] ch = "C" -> "c"
      [] ch = "D" -> "d" [] ch = "E" -> "e" [] ch = "F" -> "f"
      [] OTHER -> ch

\* a syntax check that looks at the length alone
LenOnlyValid(s) == Len(s) = IdLen

\* the store's identifier syntax: 24 hexadecimal characters, either case
isValidObjectId(s) ==
    /\ Len(s) = IdLen
    /\ \A k \in 1..Len(s) : s[k] \in HexLower \cup HexUpper

\* the ObjectId a valid id string denotes (its canonical lower-case form)
castObjectId(s) == [k \in 1..Len(s) |-> toLowerChar(s[k])]

IdTail == <<"a", "b", "c", "d", "e", "f">>

\* the n-th ObjectId of the generator's pool: 23 zeros and one letter
GenId(n) == [k \in 1..IdLen |-> IF k = IdLen THEN IdTail[n] ELSE "0"]

GenIds == {GenId(n) : n \in 1..MaxIds}

\* the first pool id written in upper case: the same ObjectId, another string
UpperId == [k \in 1..IdLen |-> IF k = IdLen THEN "A" ELSE "0"]

NotAnId == <<"n","o","t","-","a","n","-","i","d">>
NonHexId == [k \in 1..IdLen |-> IF k = IdLen THEN "g" ELSE "0"]

MalformedIds == {NotAnId, NonHexId}
WellFormedIds == GenIds \cup {UpperId}
PathIds == WellFormedIds \cup MalformedIds

NoId == <<>>

----------------------------------------------------------------------------
(* JSON values and the schema's casts (src/animalsData.js) *)

Str(s) == [t |-> "string", s |-> s, i |-> 0, f |-> 0]
\* the number i + f/10
Num(i, f) == [t |-> "number", s |-> <<>>, i |-> i, f |-> f]

Lion == <<"L","i","o","n">>
Tiger == <<"T","i","g","e","r">>
Mammal == <<"M","a","m","m","a","l">>

Digits == <<"0","1","2","3","4","5","6","7","8","9">>

DigitVal(ch) == (CHOOSE d \in 1..10 : Digits[d] = ch) - 1
IsDigit(ch) == \E d \in 1..10 : Digits[d] = ch

RECURSIVE ParseNat(_)
ParseNat(s) ==
    IF s = <<>> THEN 0
    ELSE 10 * ParseNat(SubSeq(s, 1, Len(s) - 1)) + DigitVal(s[Len(s)])

RECURSIVE FormatNat(_)
FormatNat(n) ==
    IF n < 10 THEN <<Digits[n + 1]>>
    ELSE Append(FormatNat(n \div 10), Digits[(n % 10) + 1])

\* Number("...") is NaN: mongoose raises a CastError
IsNaNString(s) == s # <<>> /\ \E k \in 1..Len(s) : ~IsDigit(s[k])

\* type: Number. The cast fails on a string that is not numeric.
castNumberFails(v) == v.t = "string" /\ IsNaNString(v.s)

\* type: Number. The set holding the cast value; {} when the cast gives null ("").
castNumber(v) ==
    IF v.t = "number" THEN {[i |-> v.i, f |-> v.f]}
    ELSE IF v.s = <<>> THEN {}
    ELSE {[i |-> ParseNat(v.s), f |-> 0]}

\* type: String. A string is kept, a number is written out.
castString(v) ==
    IF v.t = "string" THEN v.s
    ELSE IF v.f = 0 THEN FormatNat(v.i)
    ELSE FormatNat(v.i) \o <<".">> \o FormatNat(v.f)

\* a path that is not required
NoRequiredCheck(vals) == TRUE

\* required: true on a String path: present and not the empty string
checkRequiredString(vals) == vals # {} /\ \A s \in vals : Len(s) > 0

\* required: true on a Number path: present and not null
checkRequiredNumber(vals) == vals # {}

----------------------------------------------------------------------------
(* The Animal collection behind animalModel (mongoose.model("Animal", schema)) *)

\* a stored document; name, species, age hold at most one value each
Doc(id, name, species, age) ==
    [_id |-> id, name |-> name, species |-> species, age |-> age]

\* the outcome of one model call: an error message ("" if none), the documents
\* it resolves to, and the collection and generator state it leaves
Outcome(err, docs, st, us) == [err |-> err, docs |-> docs, store |-> st, used |-> us]

CanGenerate(us) == \E n \in 1..MaxIds : GenId(n) \notin us

\* a generator that hands out the same id again
ReusedObjectId(us) == GenId(1)

\* new ObjectId(): an id that was never in the collection
newObjectId(us) ==
    GenId(CHOOSE n \in 1..MaxIds :
            GenId(n) \notin us /\ \A m \in 1..(n - 1) : GenId(m) \in us)

\* the paths of a body cast to the schema's types (unknown keys are dropped)
castName(body) == {castString(v) : v \in body.name}
castSpecies(body) == {castString(v) : v \in body.species}
castAge(body) == UNION {castNumber(v) : v \in body.age}

\* casting a body raises a CastError
castFails(body) ==
    \/ \E s \in body._id : ~isValidObjectId(s)
    \/ \E v \in body.age : castNumberFails(v)

\* animalModel.create(body): cast, validate every required path, insert
create(st, us, body) ==
    LET name == castName(body)
        species == castSpecies(body)
        age == castAge(body)
        valid == /\ ~castFails(body)
                 /\ checkRequiredString(name)
                 /\ checkRequiredString(species)
                 /\ checkRequiredNumber(age)
        id == IF body._id # {} THEN castObjectId(CHOOSE s \in body._id : TRUE)
              ELSE newObjectId(us)
        doc == Doc(id, name, species, age)
    IN  IF ~valid THEN Outcome("Animal validation failed", {}, st, us)
        ELSE IF \E d \in st : d._id = id
             THEN Outcome("E11000 duplicate key error", {}, st, us)
        ELSE Outcome("", {doc}, st \cup {doc}, us \cup {id})

\* animalModel.find(): every document
find(st, us) == Outcome("", st, st, us)

\* animalModel.findById(id)
findById(st, us, id) ==
    IF ~isValidObjectId(id) THEN Outcome("Cast to ObjectId failed", {}, st, us)
    ELSE Outcome("", {d \in st : d._id = castObjectId(id)}, st, us)

\* the document after $set of the paths the body supplies
applySet(d, body) ==
    Doc(d._id,
        IF body.name # {} THEN castName(body) ELSE d.name,
        IF body.species # {} THEN castSpecies(body) ELSE d.species,
        IF body.age # {} THEN castAge(body) ELSE d.age)

\* update validators (runValidators: true) run on the supplied paths only
updateValid(body) ==
    /\ body.name # {} => checkRequiredString(castName(body))
    /\ body.species # {} => checkRequiredString(castSpecies(body))
    /\ body.age # {} => checkRequiredNumber(castAge(body))

\* the update with {upsert: true}: a missing record is inserted
UpsertUpdate(st, us, id, body) ==
    IF ~isValidObjectId(id) \/ castFails(body) \/ ~updateValid(body)
    THEN Outcome("Validation failed", {}, st, us)
    ELSE LET oid == castObjectId(id)
             old == {d \in st : d._id = oid}
             base == IF old = {} THEN {Doc(oid, {}, {}, {})} ELSE old
             new == {applySet(d, body) : d \in base}
         IN  Outcome("", new, (st \ old) \cup new, us \cup {oid})

\* animalModel.findByIdAndUpdate(id, body, {new: true, runValidators: true}):
\* the filter and the update are cast and validated before the store is asked
findByIdAndUpdate(st, us, id, body) ==
    IF ~isValidObjectId(id) THEN Outcome("Cast to ObjectId failed", {}, st, us)
    ELSE IF castFails(body) THEN Outcome("Cast failed", {}, st, us)
    ELSE IF ~updateValid(body) THEN Outcome("Validation failed", {}, st, us)
    ELSE LET old == {d \in st : d._id = castObjectId(id)}
             new == {applySet(d, body) : d \in old}
         IN  IF \E d \in old : \E s \in body._id : castObjectId(s) # d._id
             THEN Outcome("the immutable field '_id' would be modified", {}, st, us)
             ELSE Outcome("", new, (st \ old) \cup new, us)

\* animalModel.findByIdAndDelete(id)
findByIdAndDelete(st, us, id) ==
    IF ~isValidObjectId(id) THEN Outcome("Cast to ObjectId failed", {}, st, us)
    ELSE LET old == {d \in st : d._id = castObjectId(id)}
         IN  Outcome("", old, st \ old, us)

----------------------------------------------------------------------------
(* Requests and responses *)

Request(op, id, body) == [op |-> op, id |-> id, body |-> body]

\* kind: "doc" (one record), "list" (an array), "error" ({error}), "empty"
Response(status, kind, error, docs) ==
    [status |-> status, kind |-> kind, error |-> error, docs |-> docs]

EmptyBody == [_id |-> {}, name |-> {}, species |-> {}, age |-> {}]

Abc == <<"a","b","c">>

BodyIds == {{}} \cup {{s} : s \in GenIds \cup {NotAnId}}
NameVals == {{}, {Str(<<>>)}, {Str(Lion)}, {Str(Tiger)}}
SpeciesVals == {{}, {Str(Mammal)}}
AgeVals == {{}, {Num(4, 0)}, {Num(2, 5)}, {Str(Abc)}, {Str(<<"4">>)}}

Bodies == [_id : BodyIds, name : NameVals, species : SpeciesVals, age : AgeVals]

RequestsOver(bodies) ==
    {Request("create", NoId, b) : b \in bodies}
    \cup {Request("list", NoId, EmptyBody)}
    \cup {Request("get", id, EmptyBody) : id \in PathIds}
    \cup {Request("update", id, b) : id \in PathIds, b \in bodies}
    \cup {Request("delete", id, EmptyBody) : id \in PathIds}

Requests == RequestsOver(Bodies)

Clients == 1..MaxClients

----------------------------------------------------------------------------
(* Startup: the top-level script of src/app.js *)

None == {}

Init ==
    /\ uri \in {"present", "absent"}
    /\ conn = "disconnected"
    /\ listening = FALSE
    /\ everListened = FALSE
    /\ exitCode = 0
    /\ store = {}
    /\ used = {}
    /\ pend = [c \in Clients |-> None]
    /\ sent = [c \in Clients |-> None]
    /\ fresh = {}
    /\ lastApplied = [client |-> 0, waiting |-> {}, overtook |-> {}]

\* conectDB() is called without await and app.listen(PORT) runs in the same
\* turn: the connection attempt is started and the port is opened
Main ==
    /\ conn = "disconnected" /\ exitCode = 0 /\ ~everListened
    /\ conn' = "connecting"
    /\ listening' = TRUE
    /\ everListened' = TRUE
    /\ UNCHANGED <<uri, exitCode, store, used, pend, sent, fresh, lastApplied>>

\* await mongoose.connect(process.env.MONGO_URI) resolves
ConnectOK ==
    /\ conn = "connecting" /\ exitCode = 0 /\ uri = "present"
    /\ conn' = "connected"
    /\ UNCHANGED <<uri, listening, everListened, exitCode, store, used, pend, sent,
                   fresh, lastApplied>>

\* mongoose.connect rejects (no connection string, or no server): the catch
\* block calls process.exit(1), which closes the port and drops the requests
ConnectFail ==
    /\ conn = "connecting" /\ exitCode = 0
    /\ conn' = "disconnected"
    /\ exitCode' = 1
    /\ listening' = FALSE
    /\ pend' = [c \in Clients |-> None]
    /\ UNCHANGED <<uri, everListened, store, used, sent, fresh, lastApplied>>

----------------------------------------------------------------------------
(* The route handlers.  Receive is the arrival of a request at its route;  *)
(* each handler action is the rest of the handler: its one model call,     *)
(* which mongoose holds back until the connection is up, and the response. *)
(* A client slot sends its next request once it has read the response.     *)

Receive(c, r) ==
    /\ listening /\ exitCode = 0
    /\ pend[c] = None /\ sent[c] = None
    /\ pend' = [pend EXCEPT ![c] = {r}]
    /\ UNCHANGED <<uri, conn, listening, everListened, exitCode, store, used, sent,
                   fresh, lastApplied>>

\* the client of slot c has read its response and may send its next request
ReadResponse(c) ==
    /\ sent[c] # None
    /\ sent' = [sent EXCEPT ![c] = None]
    /\ UNCHANGED <<uri, conn, listening, everListened, exitCode, store, used, pend,
                   fresh, lastApplied>>

\* the handler of client c is at its await, and the model call can run
Awaiting(c, op) ==
    /\ conn = "connected" /\ exitCode = 0
    /\ \E r \in pend[c] : r.op = op

Req(c) == CHOOSE r \in pend[c] : TRUE

\* the handler of client c ends: the collection is as the model call left it
\* and the response is sent
Finish(c, out, res) ==
    /\ store' = out.store
    /\ used' = out.used
    /\ pend' = [pend EXCEPT ![c] = None]
    /\ sent' = [sent EXCEPT ![c] = {[req |-> Req(c), res |-> res]}]
    /\ UNCHANGED <<uri, conn, listening, everListened, exitCode>>

\* app.post("/animals")
PostAnimals(c) ==
    /\ Awaiting(c, "create")
    /\ Req(c).body._id = {} => CanGenerate(used)
    /\ LET out == create(store, used, Req(c).body)
       IN  Finish(c, out,
                  IF out.err # "" THEN Response(400, "error", out.err, {})
                  ELSE Response(201, "doc", "", out.docs))

\* app.get("/animals")
GetAnimals(c) ==
    /\ Awaiting(c, "list")
    /\ LET out == find(store, used)
       IN  Finish(c, out, Response(200, "list", "", out.docs))

\* app.get("/animals/:id")
GetAnimalById(c) ==
    /\ Awaiting(c, "get")
    /\ LET out == findById(store, used, Req(c).id)
       IN  Finish(c, out,
                  IF out.err # "" THEN Response(400, "error", "Invalid ID format", {})
                  ELSE IF out.docs = {}
                       THEN Response(404, "error", "Animal not found", {})
                  ELSE Response(200, "doc", "", out.docs))

\* app.put("/animals/:id")
PutAnimal(c) ==
    /\ Awaiting(c, "update")
    /\ LET out == findByIdAndUpdate(store, used, Req(c).id, Req(c).body)
       IN  Finish(c, out,
                  IF out.err # "" THEN Response(400, "error", out.err, {})
                  ELSE IF out.docs = {}
                       THEN Response(404, "error", "Animal not found", {})
                  ELSE Response(200, "doc", "", out.docs))

\* app.delete("/animals/:id")
DeleteAnimal(c) ==
    /\ Awaiting(c, "delete")
    /\ LET out == findByIdAndDelete(store, used, Req(c).id)
       IN  Finish(c, out,
                  IF out.err # "" THEN Response(400, "error", "Invalid ID format", {})
                  ELSE IF out.docs = {}
                       THEN Response(404, "error", "Animal not found", {})
                  ELSE Response(204, "empty", "", {}))

----------------------------------------------------------------------------
(* Specification of the request handlers, one request at a time: each      *)
(* handler makes one model call, so a response depends on the collection   *)
(* at that call alone.                                                     *)

NoHistory == UNCHANGED <<fresh, lastApplied>>

Startup == Main \/ ConnectOK \/ ConnectFail

Next ==
    \/ Startup
    \/ \E r \in Requests : Receive(1, r)
    \/ ReadResponse(1)
    \/ PostAnimals(1) /\ NoHistory
    \/ GetAnimals(1) /\ NoHistory
    \/ GetAnimalById(1) /\ NoHistory
    \/ PutAnimal(1) /\ NoHistory
    \/ DeleteAnimal(1) /\ NoHistory

Spec == Init /\ [][Next]_vars

----------------------------------------------------------------------------
(* Specification with the history of created documents, one request at a   *)
(* time, over bodies whose supplied fields are well-typed.                 *)

\* the history after the handler of client c has made its model call
History(c) ==
    /\ lastApplied' =
         [client |-> c,
          waiting |-> {k \in Clients \ {c} : pend[k] # None},
          overtook |-> IF c \in lastApplied.waiting THEN {lastApplied.client} ELSE {}]
    /\ fresh' =
         LET r == Req(c)
         IN  IF r.op = "create" THEN fresh \cup {d \in store' : d \notin store}
             ELSE IF r.op \in {"update", "delete"}
                  THEN {d \in fresh : d._id # castObjectId(r.id)}
             ELSE fresh

HistBodies ==
    [_id : BodyIds,
     name : {{}, {Str(Lion)}, {Str(Tiger)}},
     species : {{Str(Mammal)}},
     age : {{}, {Num(4, 0)}}]

HistRequests == RequestsOver(HistBodies)

NextHist ==
    \/ Startup
    \/ \E r \in HistRequests : Receive(1, r)
    \/ ReadResponse(1)
    \/ PostAnimals(1) /\ History(1)
    \/ GetAnimals(1) /\ History(1)
    \/ GetAnimalById(1) /\ History(1)
    \/ PutAnimal(1) /\ History(1)
    \/ DeleteAnimal(1) /\ History(1)

SpecHist == Init /\ [][NextHist]_vars

----------------------------------------------------------------------------
(* Specification with several requests in flight: the handlers of          *)
(* different clients interleave at their model calls, each of which the    *)
(* store applies atomically.                                               *)

FullTiger == [_id |-> {}, name |-> {Str(Tiger)}, species |-> {Str(Mammal)},
              age |-> {Num(4, 0)}]
FullLion == [_id |-> {}, name |-> {Str(Lion)}, species |-> {Str(Mammal)},
             age |-> {Num(2, 5)}]
OnlyName == [_id |-> {}, name |-> {Str(Tiger)}, species |-> {}, age |-> {}]
OnlyAge == [_id |-> {}, name |-> {}, species |-> {}, age |-> {Num(4, 0)}]

ConcRequests ==
    {Request("create", NoId, FullLion),
     Request("list", NoId, EmptyBody),
     Request("get", GenId(1), EmptyBody),
     Request("delete", GenId(1), EmptyBody)}
    \cup {Request("update", GenId(1), b) : b \in {FullTiger, FullLion, OnlyName, OnlyAge}}

NextConc ==
    \/ Startup
    \/ \E c \in Clients : \E r \in ConcRequests : Receive(c, r)
    \/ \E c \in Clients : ReadResponse(c)
    \/ \E c \in Clients : PostAnimals(c) /\ History(c)
    \/ \E c \in Clients : GetAnimals(c) /\ History(c)
    \/ \E c \in Clients : GetAnimalById(c) /\ History(c)
    \/ \E c \in Clients : PutAnimal(c) /\ History(c)
    \/ \E c \in Clients : DeleteAnimal(c) /\ History(c)

SpecConc == Init /\ [][NextConc]_vars

----------------------------------------------------------------------------
(* Vocabulary of the properties *)

\* the handler of client c makes its model call and responds in this step
Handled(c) == pend[c] # None /\ sent[c] = None /\ sent'[c] # None

\* the response that step sends
ResAfter(c) == (CHOOSE m \in sent'[c] : TRUE).res

HasId(st, id) == \E d \in st : d._id = id

\* the ObjectId a well-formed path identifier names
Canon(id) == [k \in 1..Len(id) |-> toLowerChar(id[k])]

AllDigits(str) ==
    \A k \in 1..Len(str) : str[k] \in {"0","1","2","3","4","5","6","7","8","9"}

\* a JSON value that is an integer
DenotesInteger(v) ==
    \/ v.t = "number" /\ v.f = 0
    \/ v.t = "string" /\ v.s # <<>> /\ AllDigits(v.s)

\* a body that lacks name, species or age (an empty string counts as
\* lacking), or whose age is not an integer
InvalidPayload(b) ==
    \/ b.name = {} \/ b.species = {} \/ b.age = {}
    \/ \E v \in b.name \cup b.species : v.s = <<>>
    \/ \E v \in b.age : ~DenotesInteger(v)

\* a payload {name, species, age} of non-empty strings and an integer
ValidPayload(b) ==
    /\ b._id = {}
    /\ \E v \in b.name : v.t = "string" /\ v.s # <<>>
    /\ \E v \in b.species : v.t = "string" /\ v.s # <<>>
    /\ \E v \in b.age : v.t = "number" /\ v.f = 0

\* the record's business fields are those of the body
FieldsEqual(d, b) ==
    /\ d.name = {v.s : v \in b.name}
    /\ d.species = {v.s : v \in b.species}
    /\ d.age = {[i |-> v.i, f |-> v.f] : v \in b.age}

\* every field the body supplies is acceptable on its own: no empty name or
\* species, no age that is not a number, no malformed _id
SuppliedFieldsOk(b) ==
    /\ b._id \subseteq WellFormedIds
    /\ \A v \in b.name \cup b.species : v.t = "string" => v.s # <<>>
    /\ \A v \in b.age : v.t = "string" => (v.s # <<>> /\ AllDigits(v.s))

IsError(res) == res.kind = "error" /\ res.error # "" /\ res.docs = {}

----------------------------------------------------------------------------
(* C1 *)

\* C1: the port is open only while the store is connected, a failed start
\* exits without the port ever having been open, and no request is in a
\* handler while the store is not connected.
C1_ServesOnlyWhenConnected ==
    /\ listening => conn = "connected"
    /\ exitCode = 1 => ~everListened
    /\ \A c \in Clients : pend[c] # None => conn = "connected"

----------------------------------------------------------------------------
(* C2 *)

\* C2: Create of a body that lacks name, species or age, or whose age is not
\* an integer, answers 400 with an {error} body and leaves the records as
\* they were.
C2_CreateRejectsInvalidBody ==
    [][\A c \in Clients :
         (Handled(c) /\ Req(c).op = "create" /\ InvalidPayload(Req(c).body))
         => (ResAfter(c).status = 400 /\ IsError(ResAfter(c)) /\ store' = store)]_vars

----------------------------------------------------------------------------
(* C3 *)

\* C3: Update of an existing id with a body that Create rejects answers 400
\* and leaves the record unchanged, and after an Update that answers 200 the
\* stored record's name, species and age are exactly those of the body.
C3_UpdateValidatesAsCreate ==
    [][\A c \in Clients :
         (Handled(c) /\ Req(c).op = "update" /\ Req(c).id \in WellFormedIds)
         => /\ (HasId(store, Canon(Req(c).id)) /\ InvalidPayload(Req(c).body))
               => (ResAfter(c).status = 400 /\ store' = store)
            /\ ResAfter(c).status = 200
               => \E d \in store' : /\ d._id = Canon(Req(c).id)
                                    /\ FieldsEqual(d, Req(c).body)]_vars

----------------------------------------------------------------------------
(* C4 *)

\* C4: a record's id is chosen by the store: a Create whose body names an
\* _id does not create a record with that id, and no Update changes the set
\* of ids the records have.
C4_IdChosenByStoreOnly ==
    [][\A c \in Clients :
         Handled(c)
         => /\ (Req(c).op = "create" /\ ResAfter(c).status = 201)
               => \A d \in ResAfter(c).docs : \A str \in Req(c).body._id :
                      d._id # Canon(str)
            /\ Req(c).op = "update"
               => {d._id : d \in store'} = {d._id : d \in store}]_vars

----------------------------------------------------------------------------
(* C5 *)

\* C5: Get, Update and Delete of a path identifier that is not in the
\* store's identifier syntax answer 400 with an {error} body, whatever the
\* records and the Update body are, and leave the records as they were.
C5_MalformedIdIs400 ==
    [][\A c \in Clients :
         (Handled(c) /\ Req(c).op \in {"get", "update", "delete"}
            /\ Req(c).id \in MalformedIds)
         => (ResAfter(c).status = 400 /\ IsError(ResAfter(c)) /\ store' = store)]_vars

\* an Update with a malformed id and a complete, valid body was answered 400
\* while the collection holds records
C5_Witness ==
    \E c \in Clients : \E m \in sent[c] :
        /\ m.req.op = "update" /\ m.req.id = NonHexId
        /\ ~InvalidPayload(m.req.body)
        /\ m.res.status = 400
        /\ store # {}

----------------------------------------------------------------------------
(* C6 *)

\* C6 as stated: Get, Update and Delete of a well-formed identifier that no
\* record has answer 404 {error: "Animal not found"}, for every Update body,
\* and leave the records as they were.
C6_AbsentIdIs404 ==
    [][\A c \in Clients :
         (Handled(c) /\ Req(c).op \in {"get", "update", "delete"}
            /\ Req(c).id \in WellFormedIds /\ ~HasId(store, Canon(Req(c).id)))
         => /\ ResAfter(c).status = 404
            /\ ResAfter(c).error = "Animal not found"
            /\ store' = store]_vars

\* C6 as amended: Get and Delete of a well-formed identifier that no record
\* has answer 404 {error: "Animal not found"}; Update answers the same 404
\* when every field its body supplies is acceptable on its own, and 400 with
\* an {error} body when a supplied field is not (an empty name or species, an
\* age that is not a number, a malformed _id); in every case the records are
\* left as they were.
C6_AbsentIdIs404UnlessFieldRejected ==
    [][\A c \in Clients :
         (Handled(c) /\ Req(c).op \in {"get", "update", "delete"}
            /\ Req(c).id \in WellFormedIds /\ ~HasId(store, Canon(Req(c).id)))
         => /\ store' = store
            /\ IsError(ResAfter(c))
            /\ IF Req(c).op = "update" /\ ~SuppliedFieldsOk(Req(c).body)
               THEN ResAfter(c).status = 400
               ELSE /\ ResAfter(c).status = 404
                    /\ ResAfter(c).error = "Animal not found"]_vars

\* an Update of a well-formed, unassigned id whose body lacks a field was
\* answered 404 while the collection holds other records
C6_Witness ==
    \E c \in Clients : \E m \in sent[c] :
        /\ m.req.op = "update" /\ m.req.id \in WellFormedIds
        /\ ~HasId(store, Canon(m.req.id))
        /\ m.req.body.name = {} /\ m.req.body.age # {}
        /\ m.res.status = 404
        /\ store # {}

----------------------------------------------------------------------------
(* C7 *)

\* C7: a Delete that answers 204 removes exactly the record of its id, and
\* an id that was deleted stays without a record: whatever request is
\* handled next, the id has no record afterwards, and a Get or Delete of it
\* answers 404.
C7_DeletedStaysDeleted ==
    [][\A c \in Clients :
         Handled(c)
         => /\ (Req(c).op = "delete" /\ ResAfter(c).status = 204)
               => /\ HasId(store, Canon(Req(c).id))
                  /\ store' = {d \in store : d._id # Canon(Req(c).id)}
            /\ \A id \in used :
                 ~HasId(store, id)
                 => /\ ~HasId(store', id)
                    /\ (Req(c).op \in {"get", "delete"} /\ Req(c).id \in WellFormedIds
                          /\ Canon(Req(c).id) = id)
                       => ResAfter(c).status = 404]_vars

----------------------------------------------------------------------------
(* C8 *)

----------------------------------------------------------------------------
(* C9 *)

\* C9: Create of a payload {name, species, age} of non-empty strings and an
\* integer answers 201 with one record whose fields are the payload's and
\* whose id no record had before the call; and a Get of the id of a record
\* that Create returned, with no Update or Delete of that id in between,
\* answers 200 with that very record.
C9_CreateGetRoundTrip ==
    [][\A c \in Clients :
         Handled(c)
         => /\ (Req(c).op = "create" /\ ValidPayload(Req(c).body))
               => /\ ResAfter(c).status = 201
                  /\ ResAfter(c).kind = "doc"
                  /\ Cardinality(ResAfter(c).docs) = 1
                  /\ \A d \in ResAfter(c).docs :
                       /\ FieldsEqual(d, Req(c).body)
                       /\ ~HasId(store, d._id)
                       /\ d._id \in WellFormedIds
                       /\ d \in store'
            /\ (Req(c).op = "get" /\ Req(c).id \in WellFormedIds)
               => \A d \in fresh :
                    d._id = Canon(Req(c).id)
                    => (ResAfter(c).status = 200 /\ ResAfter(c).docs = {d})]_vars

\* a Get, through the upper-case spelling of the id, was answered 200 with a
\* record that Create returned and nothing has touched since
C9_Witness ==
    \E c \in Clients : \E m \in sent[c] :
        /\ m.req.op = "get" /\ m.req.id = UpperId
        /\ m.res.status = 200
        /\ m.res.docs # {} /\ m.res.docs \subseteq fresh

----------------------------------------------------------------------------
(* C10 *)

\* C10: when two Updates of the same id ran concurrently (the second
\* request was waiting while the first one's model call was applied) and
\* both have been answered 200, the stored record is the one the Update
\* applied last returned, and it is that Update's alone: no field of it holds
\* a value that only the other request's body supplied.
C10_LastWriteWins ==
    \A c1, c2 \in Clients : \A m1 \in sent[c1] : \A m2 \in sent[c2] :
        (/\ c1 # c2
         /\ m1.req.op = "update" /\ m2.req.op = "update"
         /\ m1.res.status = 200 /\ m2.res.status = 200
         /\ Canon(m1.req.id) = Canon(m2.req.id)
         /\ lastApplied.client = c2 /\ c1 \in lastApplied.overtook)
        => \E d \in store :
             /\ d._id = Canon(m2.req.id)
             /\ {d} = m2.res.docs
             /\ \A v \in m1.req.body.name : v.s \in d.name => v \in m2.req.body.name
             /\ \A v \in m1.req.body.species :
                  v.s \in d.species => v \in m2.req.body.species
             /\ \A v \in m1.req.body.age :
                  [i |-> v.i, f |-> v.f] \in d.age => v \in m2.req.body.age

====
